---- MODULE Spec2Model ----
(***************************************************************************)
(* A model of scripts/resize-cocktail-images.py: the batch pass that       *)
(* enumerates assets/cocktails, normalises each image to RGB, fits it to   *)
(* 400x400 and saves it as <stem>.jpg under assets/cocktails-resized.      *)
(*                                                                         *)
(* The file system is a set of nodes (parent path, name, kind, data).      *)
(* Names are sequences of one-character strings so that Path.suffix,       *)
(* Path.stem and str.lower are computed, not assumed.  Every line of the   *)
(* script that can raise or be interrupted is one action.                  *)
(***************************************************************************)
EXTENDS Integers, Sequences, FiniteSets, TLC

VARIABLES
    fs,           \* the file system: a set of nodes
    pc,           \* position of the process in the script
    run,          \* number of the current invocation of the script (1-based)
    image_files,  \* line 23: the list of enumerated paths (records parent, name)
    i,            \* line 28: the 1-based loop counter
    img,          \* line 31/36/38: the image bound to img
    img_resized,  \* line 41
    opened,       \* paths of the source images currently open
    out,          \* the lines printed so far in this invocation
    exc,          \* the exception propagating, "none" when there is none
    exitCode,     \* exit status of the process, -1 while it runs
    source0,      \* history: assets/cocktails and all under it before the first invocation
    attempts,     \* history: names passed to Image.open in this invocation
    destBefore,   \* history: the destination's files when the current attempt began
    destPrev,     \* history: the destination's files when the previous invocation ended
    prevOk        \* history: every earlier invocation returned normally without an error line

vars == <<fs, pc, run, image_files, i, img, img_resized, opened, out, exc,
          exitCode, source0, attempts, destBefore, destPrev, prevOk>>

(***************************************************************************)
(* Bounds of the model.                                                    *)
(***************************************************************************)
MaxFiles == 2   \* most candidates (see Candidates) placed under assets/cocktails
MaxRuns == 2    \* most invocations of the script over the same file system

(***************************************************************************)
(* Names and paths.                                                        *)
(***************************************************************************)
Max(S) == CHOOSE x \in S : \A y \in S : y <= x

UpperLetters == <<"A","B","C","D","E","F","G","H","I","J","K","L","M",
                  "N","O","P","Q","R","S","T","U","V","W","X","Y","Z">>
LowerLetters == <<"a","b","c","d","e","f","g","h","i","j","k","l","m",
                  "n","o","p","q","r","s","t","u","v","w","x","y","z">>

\* str.lower on one character
LowerChar(c) ==
    IF \E k \in 1..26 : UpperLetters[k] = c
    THEN LowerLetters[CHOOSE k \in 1..26 : UpperLetters[k] = c]
    ELSE c

\* str.lower
lower(s) == [k \in 1..Len(s) |-> LowerChar(s[k])]

\* pathlib: name.rfind('.') as a 1-based position, 0 when there is no dot
rfindDot(name) ==
    LET S == {k \in 1..Len(name) : name[k] = "."}
    IN  IF S = {} THEN 0 ELSE Max(S)

\* pathlib PurePath.suffix: name[i:] when 0 < i < len(name) - 1 (0-based i)
suffix(name) ==
    LET k == rfindDot(name)
    IN  IF 1 < k /\ k < Len(name) THEN SubSeq(name, k, Len(name)) ELSE <<>>

\* pathlib PurePath.stem
stem(name) ==
    LET k == rfindDot(name)
    IN  IF 1 < k /\ k < Len(name) THEN SubSeq(name, 1, k - 1) ELSE name

assets == <<"a","s","s","e","t","s">>
cocktails == <<"c","o","c","k","t","a","i","l","s">>
cocktailsResized == cocktails \o <<"-","r","e","s","i","z","e","d">>

\* line 15 (script_dir.parent is the root <<>> of the modelled tree)
cocktails_dir == <<assets, cocktails>>

\* mutant of output_dir: the outputs written beside the inputs
output_dir_InSource == <<assets, cocktails>>

\* line 16
output_dir == <<assets, cocktailsResized>>

\* line 22
image_extensions ==
    { <<".","j","p","g">>, <<".","j","p","e","g">>,
      <<".","p","n","g">>, <<".","w","e","b","p">> }

\* line 44: f"{image_path.stem}.jpg"
OutputName(name) == stem(name) \o <<".","j","p","g">>

(***************************************************************************)
(* Images.  An image is a record: fmt is the container on disk ("mem" for  *)
(* an image in memory), mode the PIL mode, size <<width, height>>, px the  *)
(* pixels in row-major order, each a tuple of band values, palette the     *)
(* colour table of a "P" image.  box is the crop box of a fitted image in  *)
(* half pixels (ImageOps.fit centres at 0.5, so the box is a multiple of   *)
(* one half).                                                              *)
(***************************************************************************)
NoImg == [fmt |-> "none", mode |-> "", size |-> <<0, 0>>, px |-> <<>>,
          palette |-> <<>>, box |-> <<>>]

\* what a save that failed after opening the target for writing leaves there
PartialFile == [NoImg EXCEPT !.fmt = "partial"]

Mem(mode, size, px) ==
    [fmt |-> "mem", mode |-> mode, size |-> size, px |-> px,
     palette |-> <<>>, box |-> <<>>]

\* line 34: the background colour
White == <<255, 255, 255>>

\* line 41: the side of the target square
TargetSide == 400

\* Image.new(mode, size, color)
New(mode, size, color) ==
    Mem(mode, size, [k \in 1..(size[1] * size[2]) |-> color])

\* Image.split(): one "L" image per band
split(im) ==
    [b \in 1..Len(im.px[1]) |->
        Mem("L", im.size, [k \in 1..Len(im.px) |-> <<im.px[k][b]>>])]

\* the pixel as PIL stores it, four bytes wide: LA is (L, L, L, A)
Storage(im, k) ==
    LET p == im.px[k]
    IN  CASE im.mode = "LA"   -> <<p[1], p[1], p[1], p[2]>>
          [] im.mode = "RGBA" -> p
          [] im.mode = "RGB"  -> <<p[1], p[2], p[3], 255>>
          [] OTHER            -> <<p[1], p[1], p[1], 255>>

\* Paste.c: DIV255(a) = ((a + 128) >> 8 + (a + 128)) >> 8
Div255(a) == (((a + 128) \div 256) + (a + 128)) \div 256

\* Paste.c: BLEND8(mask, in1, in2)
Blend8(mask, in1, in2) == Div255(in1 * (255 - mask) + in2 * mask)

\* Image.paste(im, mask=mask) into an "RGB" image of the same size: with no
\* mask the source pixels replace the destination's, with an "L" mask the
\* two are blended by the mask
paste(dst, im, mask) ==
    [dst EXCEPT !.px =
        [k \in 1..Len(dst.px) |->
            IF mask = NoImg
            THEN SubSeq(Storage(im, k), 1, 3)
            ELSE [b \in 1..3 |->
                    Blend8(mask.px[k][1], dst.px[k][b], Storage(im, k)[b])]]]

\* Image.convert('RGB')
convertRGB(im) ==
    Mem("RGB", im.size,
        [k \in 1..Len(im.px) |->
            IF im.mode = "P"
            THEN im.palette[im.px[k][1] + 1]
            ELSE SubSeq(Storage(im, k), 1, 3)])

\* line 35: mask=img.split()[-1] if img.mode == 'RGBA' else None
paste_mask(im) ==
    IF im.mode = "RGBA" THEN split(im)[Len(im.px[1])] ELSE NoImg

\* lines 33-38: the colour normalisation
Normalize(im) ==
    IF im.mode \in {"RGBA", "LA"}
    THEN paste(New("RGB", im.size, White), im, paste_mask(im))
    ELSE IF im.mode # "RGB"
         THEN convertRGB(im)
         ELSE im

\* ImageOps.fit's crop box <<left, top, right, bottom>> in half pixels, for a
\* square target (output_ratio = 1.0) and centering (0.5, 0.5)
CropBox(w, h) ==
    LET cw == IF w >= h THEN h ELSE w      \* crop_width
        ch == IF w >= h THEN h ELSE w      \* crop_height
    IN  <<w - cw, h - ch, (w - cw) + 2 * cw, (h - ch) + 2 * ch>>

\* the source pixels (row-major positions) the crop box touches
Covered(w, h, box) ==
    {k \in 1..(w * h) :
        LET c == (k - 1) % w
            r == (k - 1) \div w
        IN  /\ 2 * c < box[3] /\ 2 * (c + 1) > box[1]
            /\ 2 * r < box[4] /\ 2 * (r + 1) > box[2]}

RECURSIVE SetToSeq(_)
SetToSeq(S) ==
    IF S = {} THEN <<>>
    ELSE LET m == CHOOSE x \in S : \A y \in S : x <= y
         IN  <<m>> \o SetToSeq(S \ {m})

\* line 41: ImageOps.fit(img, (400, 400), LANCZOS).  The result has the
\* requested size; its px keeps the source pixels the resampling reads.
fit(im, side) ==
    LET box == CropBox(im.size[1], im.size[2])
        ks  == SetToSeq(Covered(im.size[1], im.size[2], box))
    IN  [fmt |-> "mem", mode |-> im.mode, size |-> <<side, side>>,
         px |-> [n \in 1..Len(ks) |-> im.px[ks[n]]],
         palette |-> im.palette, box |-> box]

\* JpegImagePlugin: the modes the encoder writes
JpegModes == {"1", "L", "RGB", "RGBX", "CMYK", "YCbCr"}

\* line 45: the bytes of the file save() writes
JpegOf(im) == [im EXCEPT !.fmt = "JPEG"]

\* Image.open decodes the entry: a regular file holding an image
Decodable(node) ==
    node.kind = "file" /\ node.data.fmt \in {"PNG", "JPEG", "WEBP", "GIF"}

(***************************************************************************)
(* The file system.                                                        *)
(***************************************************************************)
Node(parent, name, kind, data) ==
    [parent |-> parent, name |-> name, kind |-> kind, data |-> data]

Dir(parent, name) == Node(parent, name, "dir", NoImg)

Disk(fmt, mode, size, px, palette) ==
    [fmt |-> fmt, mode |-> mode, size |-> size, px |-> px,
     palette |-> palette, box |-> <<>>]

Front(s) == SubSeq(s, 1, Len(s) - 1)
Last(s) == s[Len(s)]

At(tree, parent, name) == {n \in tree : n.parent = parent /\ n.name = name}

IsDir(tree, path) ==
    path = <<>> \/ \E n \in At(tree, Front(path), Last(path)) : n.kind = "dir"

Exists(tree, path) == At(tree, Front(path), Last(path)) # {}

\* the entries under dir at any depth
Under(tree, dir) ==
    {n \in tree : Len(n.parent) >= Len(dir)
                  /\ SubSeq(n.parent, 1, Len(dir)) = dir}

\* Path.iterdir(): the entries directly under dir
iterdir(tree, dir) == {n \in tree : n.parent = dir}

\* mutant of IsImageName: the suffix compared as it is spelt
IsImageName_CaseSensitive(name) == suffix(name) \in image_extensions

\* line 24: f.suffix.lower() in image_extensions
IsImageName(name) == lower(suffix(name)) \in image_extensions

\* lines 23-24: the entries the comprehension keeps
Listed(tree) == {n \in iterdir(tree, cocktails_dir) : IsImageName(n.name)}

\* a file created or replaced at parent/name
WriteFile(tree, parent, name, data) ==
    (tree \ At(tree, parent, name)) \cup {Node(parent, name, "file", data)}

DestFiles == iterdir(fs, output_dir)

\* the source directory and everything under it
SourceTree(tree) ==
    At(tree, Front(cocktails_dir), Last(cocktails_dir))
    \cup Under(tree, cocktails_dir)

\* the orders a directory listing may come in
Orders(S) ==
    {s \in [1..Cardinality(S) -> S] : \A a, b \in DOMAIN s : a # b => s[a] # s[b]}

(***************************************************************************)
(* The directory contents the model draws from.                            *)
(***************************************************************************)
InSource(name, data) == Node(cocktails_dir, name, "file", data)

subName == <<"s","u","b">>

Candidates ==
    { \* a.png: RGBA, 3x1: an opaque, a fully transparent and a half
      \* transparent pixel
      {InSource(<<"a",".","p","n","g">>,
                Disk("PNG", "RGBA", <<3, 1>>,
                     << <<255, 0, 0, 255>>, <<0, 0, 255, 0>>,
                        <<100, 150, 200, 128>> >>, <<>>))},
      \* a.jpg: RGB, 1x2; shares its stem with a.png
      {InSource(<<"a",".","j","p","g">>,
                Disk("JPEG", "RGB", <<1, 2>>,
                     << <<10, 20, 30>>, <<40, 50, 60>> >>, <<>>))},
      \* b.PNG: LA, 1x1, a fully transparent black pixel
      {InSource(<<"b",".","P","N","G">>,
                Disk("PNG", "LA", <<1, 1>>, << <<0, 0>> >>, <<>>))},
      \* d.webp: not an image inside
      {InSource(<<"d",".","w","e","b","p">>,
                Disk("corrupt", "", <<0, 0>>, <<>>, <<>>))},
      \* p.Jpeg: greyscale JPEG
      {InSource(<<"p",".","J","p","e","g">>,
                Disk("JPEG", "L", <<1, 1>>, << <<77>> >>, <<>>))},
      \* entries the listing must skip: x.gif (an image whose extension is not
      \* listed), README (no extension), .png (a dot file, whose suffix is
      \* empty) and sub/h.png (an image one level down)
      {InSource(<<"x",".","g","i","f">>,
                Disk("GIF", "P", <<1, 1>>, << <<0>> >>, << <<1, 2, 3>> >>)),
       InSource(<<"R","E","A","D","M","E">>,
                Disk("text", "", <<0, 0>>, <<>>, <<>>)),
       InSource(<<".","p","n","g">>,
                Disk("PNG", "RGB", <<1, 1>>, << <<1, 1, 1>> >>, <<>>)),
       Dir(cocktails_dir, subName),
       Node(cocktails_dir \o <<subName>>, <<"h",".","p","n","g">>, "file",
            Disk("PNG", "RGB", <<1, 1>>, << <<5, 5, 5>> >>, <<>>))} }

\* what may be at assets/cocktails-resized before the first invocation
DestStates ==
    { {},
      {Dir(<<assets>>, cocktailsResized)},
      {Node(<<assets>>, cocktailsResized, "file",
            Disk("text", "", <<0, 0>>, <<>>, <<>>))} }

InitialTrees ==
    { {}, {Dir(<<>>, assets)} }
    \cup
    { {Dir(<<>>, assets), Dir(<<assets>>, cocktails)} \cup UNION G \cup D :
        G \in {H \in SUBSET Candidates : Cardinality(H) <= MaxFiles},
        D \in DestStates }

(***************************************************************************)
(* Exceptions.                                                             *)
(***************************************************************************)
\* mutant of PerFileCatches: no handler around the per-file body
PerFileCatches_Nothing(e) == FALSE

\* line 49: except Exception (KeyboardInterrupt is not an Exception)
PerFileCatches(e) == e = "Exception"

\* mutant of ExitStatus: an interrupt reported with the shell's 130
ExitStatus_Shell(e) ==
    IF e = "none" THEN 0 ELSE IF e = "Exception" THEN 1 ELSE 130

\* lines 56-64: the status the process ends with when e left resize_images
ExitStatus(e) == IF e = "none" THEN 0 ELSE 1

\* mutant of ExitWith: img.close() at the end of the body instead of a with
ExitWith_SuccessOnly(o, p, e) == IF e = "none" THEN o \ {p} ELSE o

\* line 31: leaving the with block closes the image Image.open returned,
\* whether an exception e is propagating or not
ExitWith(o, p, e) == o \ {p}

PathOf(n) == [parent |-> n.parent, name |-> n.name]

\* the path the loop is at
Current == image_files[i]

CurrentNode == CHOOSE n \in fs : PathOf(n) = Current

Line(kind, name, k, n) == [kind |-> kind, name |-> name, k |-> k, n |-> n]

ErrorLines == {k \in 1..Len(out) : out[k].kind = "error"}

(***************************************************************************)
(* The state before the first invocation.                                  *)
(***************************************************************************)
Init ==
    /\ fs \in InitialTrees
    /\ source0 = SourceTree(fs)
    /\ pc = "mkdir"
    /\ run = 1
    /\ image_files = <<>>
    /\ i = 0
    /\ img = NoImg
    /\ img_resized = NoImg
    /\ opened = {}
    /\ out = <<>>
    /\ exc = "none"
    /\ exitCode = -1
    /\ attempts = <<>>
    /\ destBefore = {}
    /\ destPrev = DestFiles
    /\ prevOk = TRUE

\* an exception e raised at a line of resize_images outside the try block
Escapes(e) ==
    /\ exc' = e
    /\ pc' = "main_except"

\* an exception e raised inside the try block, in the with block or not
Raises(e, inWith) ==
    /\ exc' = e
    /\ pc' = IF inWith THEN "exit_with"
             ELSE IF PerFileCatches(e) THEN "except" ELSE "main_except"

\* line 19: output_dir.mkdir(exist_ok=True)
Mkdir ==
    /\ pc = "mkdir"
    /\ UNCHANGED <<run, image_files, i, img, img_resized, opened, out, exitCode,
                   source0, attempts, destBefore, destPrev, prevOk>>
    /\ IF Exists(fs, output_dir)
       THEN IF IsDir(fs, output_dir)
            THEN pc' = "list" /\ UNCHANGED <<fs, exc>>
            ELSE Escapes("Exception") /\ UNCHANGED fs      \* FileExistsError
       ELSE IF IsDir(fs, Front(output_dir))
            THEN /\ fs' = fs \cup {Dir(Front(output_dir), Last(output_dir))}
                 /\ pc' = "list"
                 /\ UNCHANGED exc
            ELSE Escapes("Exception") /\ UNCHANGED fs      \* FileNotFoundError

\* lines 23-26: the listing, in whatever order the file system yields, and
\* the "Found N images" line
ListDir ==
    /\ pc = "list"
    /\ UNCHANGED <<fs, run, i, img, img_resized, opened, exitCode, source0,
                   attempts, destBefore, destPrev, prevOk>>
    /\ IF IsDir(fs, cocktails_dir)
       THEN /\ \E order \in Orders({PathOf(n) : n \in Listed(fs)}) :
                    image_files' = order
            /\ out' = Append(out, Line("found", <<>>, 0, Len(image_files')))
            /\ pc' = "for"
            /\ UNCHANGED exc
       ELSE /\ Escapes("Exception")                         \* FileNotFoundError
            /\ UNCHANGED <<image_files, out>>

\* line 28: the next element of enumerate(image_files, 1), or the end
For ==
    /\ pc = "for"
    /\ UNCHANGED <<fs, run, image_files, img, img_resized, opened, out, exc,
                   exitCode, source0, attempts, destPrev, prevOk>>
    /\ IF i < Len(image_files)
       THEN /\ i' = i + 1
            /\ pc' = "open"
            /\ destBefore' = DestFiles
       ELSE /\ pc' = "banner"
            /\ UNCHANGED <<i, destBefore>>

\* line 31: Image.open(image_path) and entering the with block
Open ==
    /\ pc = "open"
    /\ attempts' = Append(attempts, Current.name)
    /\ UNCHANGED <<fs, run, image_files, i, img_resized, out, exitCode, source0,
                   destBefore, destPrev, prevOk>>
    /\ \/ /\ Decodable(CurrentNode)
          /\ img' = [CurrentNode.data EXCEPT !.fmt = "mem"]
          /\ opened' = opened \cup {Current}
          /\ pc' = "convert"
          /\ UNCHANGED exc
       \/ /\ ~Decodable(CurrentNode)     \* UnidentifiedImageError, IsADirectoryError
          /\ Raises("Exception", FALSE)
          /\ UNCHANGED <<img, opened>>
       \/ /\ Decodable(CurrentNode)      \* an I/O error on a good file
          /\ Raises("Exception", FALSE)
          /\ UNCHANGED <<img, opened>>

\* lines 33-38: the colour normalisation
Convert ==
    /\ pc = "convert"
    /\ UNCHANGED <<fs, run, image_files, i, img_resized, opened, out, exitCode,
                   source0, attempts, destBefore, destPrev, prevOk>>
    /\ \/ /\ img' = Normalize(img)
          /\ pc' = "fit"
          /\ UNCHANGED exc
       \/ /\ Raises("Exception", TRUE)   \* a truncated file, no memory
          /\ UNCHANGED img

\* line 41: ImageOps.fit
Fit ==
    /\ pc = "fit"
    /\ UNCHANGED <<fs, run, image_files, i, img, opened, out, exitCode, source0,
                   attempts, destBefore, destPrev, prevOk>>
    /\ \/ /\ img_resized' = fit(img, TargetSide)
          /\ pc' = "save"
          /\ UNCHANGED exc
       \/ /\ Raises("Exception", TRUE)
          /\ UNCHANGED img_resized

\* lines 44-45: save() opens <output_dir>/<stem>.jpg for writing, which
\* empties a file already there, then encodes into it.  A save that fails
\* before the open leaves the directory alone.  One that fails after it
\* leaves the partial file when the file was there before, and removes the
\* file when this save created it (Image.save's handler of Exception).
Save ==
    /\ pc = "save"
    /\ UNCHANGED <<run, image_files, i, img, img_resized, opened, out, exitCode,
                   source0, attempts, destBefore, destPrev, prevOk>>
    /\ LET name == OutputName(Current.name)
       IN  \/ /\ img_resized.mode \in JpegModes
              /\ fs' = WriteFile(fs, output_dir, name, JpegOf(img_resized))
              /\ pc' = "progress"
              /\ UNCHANGED exc
           \/ /\ Raises("Exception", TRUE)
              /\ UNCHANGED fs
           \/ /\ At(fs, output_dir, name) # {}
              /\ Raises("Exception", TRUE)
              /\ fs' = WriteFile(fs, output_dir, name, PartialFile)

\* line 47, then the normal exit of the with block
Progress ==
    /\ pc = "progress"
    /\ out' = Append(out, Line("resized", Current.name, i, Len(image_files)))
    /\ opened' = ExitWith(opened, Current, exc)
    /\ img' = NoImg
    /\ img_resized' = NoImg
    /\ pc' = "for"
    /\ UNCHANGED <<fs, run, image_files, i, exc, exitCode, source0, attempts,
                   destBefore, destPrev, prevOk>>

\* line 31: the with block left by an exception (img and img_resized stay
\* bound in the script but are assigned before they are read again)
ExitWithRaised ==
    /\ pc = "exit_with"
    /\ opened' = ExitWith(opened, Current, exc)
    /\ img' = NoImg
    /\ img_resized' = NoImg
    /\ pc' = IF PerFileCatches(exc) THEN "except" ELSE "main_except"
    /\ UNCHANGED <<fs, run, image_files, i, out, exc, exitCode, source0, attempts,
                   destBefore, destPrev, prevOk>>

\* lines 49-50: the per-file handler
Except ==
    /\ pc = "except"
    /\ out' = Append(out, Line("error", Current.name, i, Len(image_files)))
    /\ exc' = "none"
    /\ pc' = "for"
    /\ UNCHANGED <<fs, run, image_files, i, img, img_resized, opened, exitCode,
                   source0, attempts, destBefore, destPrev, prevOk>>

\* lines 52-54
Banner ==
    /\ pc = "banner"
    /\ out' = Append(out, Line("banner", <<>>, 0, 0))
    /\ pc' = "returned"
    /\ UNCHANGED <<fs, run, image_files, i, img, img_resized, opened, exc,
                   exitCode, source0, attempts, destBefore, destPrev, prevOk>>

\* a KeyboardInterrupt delivered while a line of resize_images runs; during
\* the save the target may already be open for writing, and nothing removes
\* what was written (KeyboardInterrupt is not an Exception)
Interrupt ==
    /\ pc \in {"mkdir", "list", "for", "open", "convert", "fit", "save",
               "progress", "except", "banner"}
    /\ IF pc \in {"open", "convert", "fit", "save", "progress"}
       THEN Raises("KeyboardInterrupt", pc # "open")
       ELSE Escapes("KeyboardInterrupt")
    /\ \/ UNCHANGED fs
       \/ /\ pc = "save"
          /\ fs' = WriteFile(fs, output_dir, OutputName(Current.name), PartialFile)
    /\ UNCHANGED <<run, image_files, i, img, img_resized, opened, out, exitCode,
                   source0, attempts, destBefore, destPrev, prevOk>>

\* line 58 returned: the script ends
MainReturn ==
    /\ pc = "returned"
    /\ exitCode' = ExitStatus(exc)
    /\ pc' = "exited"
    /\ UNCHANGED <<fs, run, image_files, i, img, img_resized, opened, out, exc,
                   source0, attempts, destBefore, destPrev, prevOk>>

\* lines 59-64: the two handlers of the main block
MainExcept ==
    /\ pc = "main_except"
    /\ out' = Append(out, Line(exc, <<>>, 0, 0))
    /\ exitCode' = ExitStatus(exc)
    /\ pc' = "exited"
    /\ UNCHANGED <<fs, run, image_files, i, img, img_resized, opened, exc, source0,
                   attempts, destBefore, destPrev, prevOk>>

\* the script is started again over the file system the last invocation left
Rerun ==
    /\ pc = "exited"
    /\ run < MaxRuns
    /\ run' = run + 1
    /\ pc' = "mkdir"
    /\ image_files' = <<>>
    /\ i' = 0
    /\ img' = NoImg
    /\ img_resized' = NoImg
    /\ opened' = {}
    /\ out' = <<>>
    /\ exc' = "none"
    /\ exitCode' = -1
    /\ attempts' = <<>>
    /\ destBefore' = {}
    /\ destPrev' = DestFiles
    /\ prevOk' = (prevOk /\ exitCode = 0 /\ ErrorLines = {})
    /\ UNCHANGED <<fs, source0>>

Next ==
    \/ Mkdir
    \/ ListDir
    \/ For
    \/ Open
    \/ Convert
    \/ Fit
    \/ Save
    \/ Progress
    \/ ExitWithRaised
    \/ Except
    \/ Banner
    \/ Interrupt
    \/ MainReturn
    \/ MainExcept
    \/ Rerun

Spec == Init /\ [][Next]_vars
(***************************************************************************)
(* Properties.                                                             *)
(***************************************************************************)
Listing == out # <<>> /\ out[1].kind = "found"

ResizedLines == {k \in 1..Len(out) : out[k].kind = "resized"}

Names(paths) == [k \in 1..Len(paths) |-> paths[k].name]

\* C1: in a run the user does not interrupt, every enumerated file is
\* passed to Image.open exactly once, in the order of the listing, whatever
\* failed before it: at every moment the attempts are the first files of
\* the listing, one attempt each, and when the run ends they are all of it.
C1_EveryFileAttemptedOnce ==
    /\ Len(attempts) <= Len(image_files)
    /\ attempts = SubSeq(Names(image_files), 1, Len(attempts))
    /\ \/ Len(attempts) = i
       \/ Len(attempts) = i - 1 /\ (pc = "open" \/ exc = "KeyboardInterrupt")
    /\ (pc = "exited" /\ exc # "KeyboardInterrupt")
          => attempts = Names(image_files)

\* C1, its case: a run that ended normally over two files or more, the
\* first of which failed
C1_Witness ==
    /\ pc = "exited"
    /\ exc = "none"
    /\ Len(image_files) >= 2
    /\ \E k \in ErrorLines : out[k].k = 1
    /\ Len(attempts) = Len(image_files)

\* C2: the exit status is 0 exactly when resize_images returned (its
\* banner is the last line printed), per-file errors included; it is 1 when
\* a KeyboardInterrupt ended the run, wherever it struck, and 1 when
\* another exception left resize_images, which only the mkdir and the
\* listing can raise.
C2_ExitStatus ==
    pc = "exited" =>
        /\ exitCode \in {0, 1}
        /\ (exitCode = 0) <=> (out # <<>> /\ out[Len(out)].kind = "banner")
        /\ exc = "KeyboardInterrupt" => exitCode = 1
        /\ exc = "Exception" => (exitCode = 1 /\ attempts = <<>>)
        /\ (ErrorLines # {} /\ exc # "KeyboardInterrupt") => exitCode = 0

\* C2, its case: the user interrupts the run inside the per-file body,
\* after an earlier file has failed
C2_Witness ==
    /\ pc = "exited"
    /\ exc = "KeyboardInterrupt"
    /\ exitCode = 1
    /\ ErrorLines # {}
    /\ opened = {}
    /\ Len(attempts) > Cardinality(ErrorLines) + Cardinality(ResizedLines)

IsJpeg400(n) ==
    /\ n.kind = "file"
    /\ n.data.fmt = "JPEG"
    /\ n.data.mode = "RGB"
    /\ n.data.size = <<400, 400>>

\* C3: after a completed run every input reported as resized has a file at
\* <dest>/<stem>.jpg, and every destination file the run created or changed
\* is an RGB JPEG of 400x400 pixels.
C3_OutputsAreRgbJpeg400 ==
    (pc = "exited" /\ exitCode = 0) =>
        /\ \A k \in ResizedLines :
              \E n \in DestFiles :
                  n.name = stem(out[k].name) \o <<".","j","p","g">>
        /\ \A n \in DestFiles \ destPrev : IsJpeg400(n)

\* C4: after a completed run that began with an empty destination, the
\* destination holds as many files as inputs were resized: no two resized
\* inputs share an output file.
C4_OneOutputPerInput ==
    (pc = "exited" /\ exitCode = 0 /\ destPrev = {})
        => Cardinality(DestFiles) = Cardinality(ResizedLines)

\* C5: when a file's processing ends in the per-file handler, the
\* destination holds what it held when the attempt on that file began.
C5_FailedInputLeavesDestination ==
    pc = "except" => DestFiles = destBefore

\* C6: the image handed to the resize step is white wherever the source,
\* of mode RGBA or LA, is fully transparent.
C6_TransparentBecomesWhite ==
    (pc = "fit" /\ CurrentNode.data.mode \in {"RGBA", "LA"}) =>
        \A k \in 1..Len(CurrentNode.data.px) :
            LET p == CurrentNode.data.px[k]
            IN  p[Len(p)] = 0 => img.px[k] = <<255, 255, 255>>

\* C7: a second complete run over the unchanged source leaves every
\* destination file as the first run left it, whatever the two listing
\* orders.  Stated for two runs in which no file fails, so that both runs
\* resize the same inputs.
C7_RerunIdempotent ==
    (run >= 2 /\ pc = "exited" /\ exitCode = 0 /\ prevOk /\ ErrorLines = {})
        => DestFiles = destPrev

\* C8: the source directory, its entries and their contents are in every
\* state what they were before the first run, and whatever else the file
\* system holds is assets, assets/cocktails-resized or directly under it.
C8_SourceUntouched ==
    /\ SourceTree(fs) = source0
    /\ \A n \in fs \ source0 :
          \/ n.parent = <<>> /\ n.name = assets
          \/ n.parent = <<assets>> /\ n.name = cocktailsResized
          \/ n.parent = <<assets, cocktailsResized>>

\* C8, its case: a rerun has overwritten an output while an image of the
\* source is open
C8_Witness ==
    /\ run >= 2
    /\ pc = "progress"
    /\ destPrev # {}
    /\ DestFiles # {}
    /\ source0 # {}

\* c is the lower-case letter d or its capital
IsLetter(c, d) ==
    c = d \/ \E k \in 1..26 : LowerLetters[k] = d /\ UpperLetters[k] = c

\* name is a non-empty stem followed by a dot and ext, in any case
EndsWithExtension(name, ext) ==
    /\ Len(name) > Len(ext) + 1
    /\ name[Len(name) - Len(ext)] = "."
    /\ \A k \in 1..Len(ext) : IsLetter(name[Len(name) - Len(ext) + k], ext[k])

ListedExtensions ==
    { <<"j","p","g">>, <<"j","p","e","g">>, <<"p","n","g">>, <<"w","e","b","p">> }

ExpectedFiles ==
    {[parent |-> n.parent, name |-> n.name] :
        n \in {m \in fs : /\ m.parent = <<assets, cocktails>>
                          /\ \E e \in ListedExtensions :
                                EndsWithExtension(m.name, e)}}

\* C9: the files the run attempts are the entries directly under the source
\* directory whose last extension is jpg, jpeg, png or webp in any case;
\* no other entry is counted, opened, named in a line of output or turned
\* into an output file.
C9_OnlyListedExtensions ==
    Listing =>
        LET expected == ExpectedFiles
            names == {f.name : f \in expected}
        IN  /\ {image_files[k] : k \in 1..Len(image_files)} = expected
            /\ Len(image_files) = Cardinality(expected)
            /\ out[1].n = Cardinality(expected)
            /\ \A k \in 1..Len(attempts) : attempts[k] \in names
            /\ \A k \in 1..Len(out) :
                  out[k].kind \in {"resized", "error"} => out[k].name \in names
            /\ \A n \in DestFiles \ destPrev :
                  \E f \in names : n.name = stem(f) \o <<".","j","p","g">>

\* C9, its case: a run over a directory holding b.PNG beside x.gif, README,
\* .png and sub/h.png has ended after resizing the one listed file
C9_Witness ==
    /\ pc = "exited"
    /\ exitCode = 0
    /\ Cardinality(iterdir(fs, cocktails_dir)) = 5
    /\ Len(image_files) = 1
    /\ image_files[1].name = <<"b",".","P","N","G">>
    /\ ResizedLines # {}

\* C10: at most one source image is open at any moment, it is the image of
\* the file the loop is at, and none is open between two files or once the
\* loop has ended.
C10_AtMostOneImageOpen ==
    /\ Cardinality(opened) <= 1
    /\ opened # {} => (i \in 1..Len(image_files) /\ opened = {image_files[i]})
    /\ pc \in {"mkdir", "list", "for", "open", "except", "banner", "returned",
               "main_except", "exited"} => opened = {}

\* C10, its case: the first file failed, and a failure is on its way out of
\* the with block of the second file, the only image open
C10_Witness ==
    /\ pc = "exit_with"
    /\ exc = "Exception"
    /\ i = 2
    /\ ErrorLines # {}
    /\ opened = {image_files[2]}
====
